---- MODULE Spec2Model ----
(***************************************************************************)
(* Strike discovery and historical-series retrieval of the NSE option      *)
(* chart generator.                                                        *)
(*                                                                         *)
(*   main01.py    fetch_strike_prices with the per-side retry loop and the *)
(*                CSV snapshot fallback; fetch_nse_data                    *)
(*   main.py      fetch_strike_prices without retry and without fallback   *)
(*   core.py      fetch_nse_data with the checked home-page status         *)
(*   nseOptions.py initialize_nse_session / fetch_historical_data          *)
(*   app.py       load_and_process_data on an uploaded CSV                 *)
(*   main() of main01.py, main.py, core.py, core11bk.py and the page of    *)
(*                nseOptions.py: widgets, validation, the fetch button     *)
(*                                                                         *)
(* Every HTTP GET is one step; the exchange and the file system are the    *)
(* environment and answer each step nondeterministically.                  *)
(***************************************************************************)
EXTENDS Integers, Sequences, FiniteSets, TLC

(***************************************************************************)
(* Bounds of the model                                                     *)
(***************************************************************************)
\* rows in the data array of one discovery response
MaxRows == 2
\* rows in the snapshot CSV
MaxCsvRows == 3
\* records in the data array of one historical response
MaxRecords == 2
\* lines of an uploaded CSV below its header
MaxUploadLines == 2
\* days the date widgets range over
MaxDay == 3

\* rows of one leg of the backtest
MaxLegRows == 2

(***************************************************************************)
(* Values                                                                  *)
(***************************************************************************)
\* Python None, for dates
None == -1
\* float NaN of pandas (to_numeric with errors='coerce', absent cells)
NaN == -1
\* pandas NaT (to_datetime with errors='coerce')
NaT == -1
\* a key that a JSON record / a CSV row does not carry
Absent == "<absent>"

\* one attempt more
MaxAttempts_Four == 3 + 1

\* for attempt in range(3)
MaxAttempts == 3
\* if attempt == 2
LastAttempt == 2

\* option_types = ["CE", "PE"]
option_types == <<"CE", "PE">>

\* calendar days as the ordinal of the day within 2025
D27Mar == 86
D24Apr == 114
Dates == {D27Mar, D24Apr}

\* expiry_date.strftime("%d-%b-%Y")
StrftimeDBY(d) ==
    CASE d = D27Mar -> "27-Mar-2025"
      [] d = D24Apr -> "24-Apr-2025"
      [] OTHER -> "??-???-????"

\* str.upper() on the date strings
Upper(s) ==
    CASE s = "27-Mar-2025" -> "27-MAR-2025"
      [] s = "24-Apr-2025" -> "24-APR-2025"
      [] OTHER -> s

\* expiry_date_str = expiry_date.strftime("%d-%b-%Y").upper()
ExpiryDateStr(d) == Upper(StrftimeDBY(d))

\* pd.to_numeric(cell, errors='coerce')
ToNumeric(cell) ==
    CASE cell = "0" -> 0
      [] cell = "9" -> 9
      [] cell = "10" -> 10
      [] cell = "11" -> 11
      [] cell = "12" -> 12
      [] cell = "100" -> 100
      [] cell = "200" -> 200
      [] cell = "200.00" -> 200
      [] cell = "300" -> 300
      [] cell = "500" -> 500
      [] cell = "550" -> 550
      [] OTHER -> NaN

\* pd.to_datetime(cell, format='%d-%b-%Y', errors='coerce'), as yyyymmdd
ToDatetime(cell) ==
    CASE cell = "01-Feb-2025" -> 20250201
      [] cell = "02-Jan-2025" -> 20250102
      [] OTHER -> NaT

Max(S) == CHOOSE x \in S : \A y \in S : y <= x
Min(S) == CHOOSE x \in S : \A y \in S : x <= y

RECURSIVE Sorted(_)
\* sorted(list(S)) of a set of numbers
Sorted(S) == IF S = {} THEN <<>> ELSE <<Min(S)>> \o Sorted(S \ {Min(S)})

SeqsUpTo(S, n) == UNION {[1..k -> S] : k \in 0..n}

(***************************************************************************)
(* The exchange: what one GET can produce                                  *)
(***************************************************************************)
Statuses == {200, 304, 404, 500}

\* raw cells of the records of a discovery response
RawStrikes == {"-", "100", "200", "200.00", "300"}
RawStamps == {"bad", "01-Feb-2025", "02-Jan-2025"}

\* the records of one response carry the same keys: both fields, only the
\* strike, only the timestamp, or neither
DiscRecords ==
    { [FH_STRIKE_PRICE : RawStrikes, FH_TIMESTAMP : RawStamps],
      [FH_STRIKE_PRICE : RawStrikes, FH_TIMESTAMP : {Absent}],
      [FH_STRIKE_PRICE : {Absent}, FH_TIMESTAMP : RawStamps],
      [FH_STRIKE_PRICE : {Absent}, FH_TIMESTAMP : {Absent}] }

\* the data arrays of at most MaxRows records
DiscData == UNION {SeqsUpTo(R, MaxRows) : R \in DiscRecords}

Exception == [kind |-> "exception", status |-> 0, data |-> <<>>]
NoResp == [kind |-> "none", status |-> 0, data |-> <<>>]

SampleDiscData ==
    << [FH_STRIKE_PRICE |-> "100", FH_TIMESTAMP |-> "01-Feb-2025"] >>

\* kind: "exception" the GET raised (timeout, connection error);
\*       "notjson"   a body that response.json() cannot decode;
\*       "nokey"     a JSON object without a "data" key;
\*       "data"      a JSON object whose "data" is the list in .data
DiscResponses ==
    {Exception}
    \cup {[kind |-> "notjson", status |-> s, data |-> <<>>] : s \in Statuses}
    \cup {[kind |-> "nokey", status |-> s, data |-> <<>>] : s \in Statuses \ {304}}
    \cup {[kind |-> "data", status |-> s, data |-> SampleDiscData] : s \in {404, 500}}
    \cup {[kind |-> "data", status |-> 200, data |-> d] : d \in DiscData}

\* a warm-up GET raises or returns a page with some status
WarmOutcomes == {Exception} \cup {[kind |-> "page", status |-> s, data |-> <<>>] : s \in Statuses}

\* no status raises
RaisesForStatus_Never(r) == FALSE

\* response.raise_for_status(): HTTPError for 4xx and 5xx
RaisesForStatus(r) == r.status >= 400

\* scraper.get(...); response.raise_for_status(); data = response.json()
\* raises
GetRaises(r) == r.kind = "exception" \/ RaisesForStatus(r) \/ r.kind = "notjson"

\* "data" in data and data["data"]
HasData(r) == r.kind = "data" /\ r.data # <<>>

\* df.columns of pd.DataFrame(data["data"]): the keys some record carries
Columns(rows) ==
    {c \in {"FH_STRIKE_PRICE", "FH_TIMESTAMP"} : \E i \in DOMAIN rows : rows[i][c] # Absent}

\* df["FH_STRIKE_PRICE"].dropna().tolist() over the rows selected by keep
StrikesOf(rows, keep) ==
    {ToNumeric(rows[i].FH_STRIKE_PRICE) : i \in {j \in DOMAIN rows : keep[j]}} \ {NaN}

\* latest_date = df["FH_TIMESTAMP"].max(): max skips NaT, NaT if all are NaT
LatestDate(rows) ==
    LET ds == {ToDatetime(rows[i].FH_TIMESTAMP) : i \in DOMAIN rows} \ {NaT}
    IN  IF ds = {} THEN NaT ELSE Max(ds)

\* no row is filtered out
IsRecent_AnyDay(rows, i) == TRUE

\* df["FH_TIMESTAMP"] == latest_date: NaT equals nothing, itself included
IsRecent(rows, i) ==
    LET latest_date == LatestDate(rows)
        t == ToDatetime(rows[i].FH_TIMESTAMP)
    IN  t # NaT /\ latest_date # NaT /\ t = latest_date

\* the latest-day filter is applied whether or not the column exists
ValidStrikes_AlwaysLatest(r) ==
    IF ~HasData(r) THEN {}
    ELSE IF "FH_STRIKE_PRICE" \notin Columns(r.data) THEN {}
    ELSE StrikesOf(r.data, [i \in DOMAIN r.data |-> IsRecent(r.data, i)])

\* main01.py: valid_strikes of one response that did not raise
ValidStrikes(r) ==
    IF ~HasData(r) THEN {}
    ELSE IF "FH_STRIKE_PRICE" \notin Columns(r.data) THEN {}
    ELSE IF "FH_TIMESTAMP" \in Columns(r.data)
         THEN StrikesOf(r.data, [i \in DOMAIN r.data |-> IsRecent(r.data, i)])
         ELSE StrikesOf(r.data, [i \in DOMAIN r.data |-> TRUE])

\* the set is assigned instead of updated
Update_Replace(strikes, valid_strikes) == valid_strikes

\* strike_prices.update(valid_strikes)
Update(strikes, valid_strikes) == strikes \cup valid_strikes

\* the API result is never taken
Truthy_Never(strikes) == FALSE

\* "if strike_prices:" on a set
Truthy(strikes) == strikes # {}

\* main.py: the strikes of one response that did not raise
AllStrikes(r) ==
    IF ~HasData(r) THEN {}
    ELSE IF "FH_STRIKE_PRICE" \notin Columns(r.data) THEN {}
    ELSE StrikesOf(r.data, [i \in DOMAIN r.data |-> TRUE])

(***************************************************************************)
(* The snapshot CSV fo_eq_security_<EXPIRY>.csv                            *)
(***************************************************************************)
CsvRow(sym, ins, exp, opt, pr) ==
    [SYMBOL |-> sym, INSTRUMENT |-> ins, EXPIRY_DT |-> exp, OPTION_TYP |-> opt, STRIKE_PR |-> pr]

\* rows that match the request (ABC, OPTSTK, 27 March 2025) as the code
\* compares them, rows that write the expiry in mixed case, and rows that
\* differ from a matching row in one field
CsvRows ==
    {CsvRow("ABC", "OPTSTK", "27-MAR-2025", "CE", "500"),
     CsvRow("ABC", "OPTSTK", "27-MAR-2025", "PE", "550"),
     CsvRow("ABC", "OPTSTK", "27-MAR-2025", "CE", "-"),
     CsvRow("ABC", "OPTSTK", "27-Mar-2025", "CE", "500"),
     CsvRow("ABC", "OPTSTK", "27-Mar-2025", "PE", "550"),
     CsvRow("XYZ", "OPTSTK", "27-MAR-2025", "CE", "500"),
     CsvRow("ABC", "OPTIDX", "27-MAR-2025", "CE", "500"),
     CsvRow("ABC", "OPTSTK", "24-APR-2025", "PE", "550"),
     CsvRow("ABC", "OPTSTK", "27-MAR-2025", "XX", "550")}

\* header lines of the file, as written
CanonicalHeader == {"SYMBOL", "INSTRUMENT", "EXPIRY_DT", "OPTION_TYP", "STRIKE_PR"}
OtherHeaders ==
    { {" Symbol", "Instrument ", "Expiry Dt", "Option Typ", "Strike Pr"},
      {"SYMBOL", "INSTRUMENT", "EXPIRY_DT", "OPTION_TYP"},
      {"INSTRUMENT", "EXPIRY_DT", "OPTION_TYP", "STRIKE_PR"} }

\* df.columns.str.strip().str.replace(' ', '_').str.upper()
NormalizeHeader(h) ==
    CASE h = " Symbol" -> "SYMBOL"
      [] h = "Instrument " -> "INSTRUMENT"
      [] h = "Expiry Dt" -> "EXPIRY_DT"
      [] h = "Option Typ" -> "OPTION_TYP"
      [] h = "Strike Pr" -> "STRIKE_PR"
      [] OTHER -> h

AbsentFile == [state |-> "absent", header |-> {}, rows |-> <<>>]
UnreadFile == [state |-> "unread", header |-> {}, rows |-> <<>>]

\* state: "absent" os.path.exists is False; "unreadable" pd.read_csv raises;
\*        "table" the file parses
SampleCsvRows ==
    <<CsvRow("ABC", "OPTSTK", "27-MAR-2025", "CE", "550"),
      CsvRow("ABC", "OPTSTK", "27-MAR-2025", "PE", "500")>>

CsvFiles ==
    {AbsentFile, [state |-> "unreadable", header |-> {}, rows |-> <<>>]}
    \cup {[state |-> "table", header |-> h, rows |-> SampleCsvRows] : h \in OtherHeaders}
    \cup {[state |-> "table", header |-> CanonicalHeader, rows |-> rs] :
              rs \in SeqsUpTo(CsvRows, MaxCsvRows)}

\* the rows of df_filtered
CsvFiltered(file, symbol, instrument_type, expiry_date) ==
    {i \in DOMAIN file.rows :
        /\ file.rows[i].SYMBOL = symbol
        /\ file.rows[i].INSTRUMENT = instrument_type
        /\ file.rows[i].EXPIRY_DT = ExpiryDateStr(expiry_date)
        /\ file.rows[i].OPTION_TYP \in {"CE", "PE"}}

\* sorted(df_filtered['STRIKE_PR'].dropna().unique().tolist())
CsvStrikes(file, symbol, instrument_type, expiry_date) ==
    Sorted({ToNumeric(file.rows[i].STRIKE_PR) :
              i \in CsvFiltered(file, symbol, instrument_type, expiry_date)} \ {NaN})

\* the list is returned as it is, empty or not
OrPlaceholder_NoPlaceholder(strikes) == strikes

\* return strike_prices if strike_prices else [0]
OrPlaceholder(strikes) == IF strikes # <<>> THEN strikes ELSE <<0>>

\* the CSV fallback of main01.fetch_strike_prices
CsvFallbackResult(file, symbol, instrument_type, expiry_date) ==
    LET cols == {NormalizeHeader(h) : h \in file.header}
    IN  IF file.state = "absent" THEN <<0>>
        ELSE IF file.state = "unreadable" THEN <<0>>
        ELSE IF instrument_type \notin {"OPTSTK", "OPTIDX"} THEN <<0>>
        ELSE IF ~({"SYMBOL", "INSTRUMENT", "EXPIRY_DT", "OPTION_TYP"} \subseteq cols) THEN <<0>>
        ELSE IF CsvFiltered(file, symbol, instrument_type, expiry_date) = {} THEN <<0>>
        ELSE IF "STRIKE_PR" \in cols
             THEN OrPlaceholder(CsvStrikes(file, symbol, instrument_type, expiry_date))
             ELSE <<0>>

\* which return statement of the CSV part is taken
CsvSource(file, symbol, instrument_type, expiry_date) ==
    LET cols == {NormalizeHeader(h) : h \in file.header}
    IN  IF /\ file.state = "table"
           /\ instrument_type \in {"OPTSTK", "OPTIDX"}
           /\ {"SYMBOL", "INSTRUMENT", "EXPIRY_DT", "OPTION_TYP", "STRIKE_PR"} \subseteq cols
           /\ CsvStrikes(file, symbol, instrument_type, expiry_date) # <<>>
        THEN "csv"
        ELSE "placeholder"

(***************************************************************************)
(* The historical fetcher: fetch_nse_data (main01.py, core.py, core11bk.py)*)
(* and fetch_historical_data (nseOptions.py)                               *)
(***************************************************************************)
FetchRecord(ts, o, h, l, c) ==
    [FH_TIMESTAMP |-> ts, FH_OPENING_PRICE |-> o, FH_TRADE_HIGH_PRICE |-> h,
     FH_TRADE_LOW_PRICE |-> l, FH_CLOSING_PRICE |-> c]

\* two complete trading days, a second record of a day, a timestamp in
\* another format, a '-' placeholder, a text that is no number, a record
\* without the high price, a record without any price
FetchRecords ==
    {FetchRecord("02-Jan-2025", "10", "12", "9", "11"),
     FetchRecord("01-Feb-2025", "11", "12", "10", "12"),
     FetchRecord("02-Jan-2025", "9", "12", "9", "11"),
     FetchRecord("2025-01-03", "10", "12", "9", "11"),
     FetchRecord("01-Feb-2025", "-", "12", "9", "11"),
     FetchRecord("02-Jan-2025", "10", "12", "9", "n/a"),
     FetchRecord("02-Jan-2025", "10", Absent, "9", "11"),
     FetchRecord("01-Feb-2025", Absent, Absent, Absent, Absent)}

SampleFetchData == << FetchRecord("02-Jan-2025", "10", "12", "9", "11") >>

FetchResponses ==
    {Exception}
    \cup {[kind |-> "notjson", status |-> s, data |-> <<>>] : s \in Statuses}
    \cup {[kind |-> "nokey", status |-> s, data |-> <<>>] : s \in Statuses \ {304}}
    \cup {[kind |-> "data", status |-> s, data |-> SampleFetchData] : s \in {404, 500}}
    \cup {[kind |-> "data", status |-> 200, data |-> d] : d \in SeqsUpTo(FetchRecords, MaxRecords)}

\* df.rename(columns={...}) on the column names
Rename(c) ==
    CASE c = "FH_TIMESTAMP" -> "Date"
      [] c = "FH_OPENING_PRICE" -> "Open"
      [] c = "FH_TRADE_HIGH_PRICE" -> "High"
      [] c = "FH_TRADE_LOW_PRICE" -> "Low"
      [] c = "FH_CLOSING_PRICE" -> "Close"
      [] OTHER -> c

\* the columns of the renamed frame: the keys some record carries
FetchColumns(rows) ==
    {Rename(c) : c \in {k \in {"FH_TIMESTAMP", "FH_OPENING_PRICE", "FH_TRADE_HIGH_PRICE",
                                "FH_TRADE_LOW_PRICE", "FH_CLOSING_PRICE"} :
                          \E i \in DOMAIN rows : rows[i][k] # Absent}}

\* df.dropna(subset=['Open', 'High', 'Low', 'Close']) raises KeyError when
\* one of the four columns does not exist
DropnaRaises(rows) == ~({"Open", "High", "Low", "Close"} \subseteq FetchColumns(rows))

\* df.replace('-', pd.NA) on a cell that is still text
ReplaceDash(cell) == IF cell = "-" THEN Absent ELSE cell

\* one row after rename, pd.to_numeric(errors='coerce') and replace
Coerce(rec) ==
    [Date |-> ReplaceDash(rec.FH_TIMESTAMP),
     Open |-> ToNumeric(rec.FH_OPENING_PRICE),
     High |-> ToNumeric(rec.FH_TRADE_HIGH_PRICE),
     Low |-> ToNumeric(rec.FH_TRADE_LOW_PRICE),
     Close |-> ToNumeric(rec.FH_CLOSING_PRICE)]

\* the row survives dropna(subset=['Open', 'High', 'Low', 'Close'])
HasOHLC(row) == row.Open # NaN /\ row.High # NaN /\ row.Low # NaN /\ row.Close # NaN

\* the frame fetch_nse_data returns for a non-empty data array
Normalize(rows) == SelectSeq([i \in DOMAIN rows |-> Coerce(rows[i])], HasOHLC)

\* a returned value: None, or a DataFrame with its rows
NoneDf == [none |-> TRUE, rows |-> <<>>]
Df(rows) == [none |-> FALSE, rows |-> rows]

\* fetch_nse_data from the historical GET on: the returned value
FetchNseDataResult(r) ==
    IF GetRaises(r) THEN NoneDf
    ELSE IF ~HasData(r) THEN NoneDf
    ELSE IF DropnaRaises(r.data) THEN NoneDf
    ELSE Df(Normalize(r.data))

\* every None is reported with the text of the except branch
FetchNseDataMessage_OneText(r) ==
    IF GetRaises(r) \/ ~HasData(r) \/ DropnaRaises(r.data) THEN {"Error fetching data"} ELSE {}

\* fetch_nse_data from the historical GET on: the st.error text
FetchNseDataMessage(r) ==
    IF GetRaises(r) THEN {"Error fetching data"}
    ELSE IF ~HasData(r) THEN {"No historical data found"}
    ELSE IF DropnaRaises(r.data) THEN {"Error fetching data"}
    ELSE {}

\* fetch_historical_data from the historical GET on: the returned value
FetchHistoricalResult(r) ==
    IF r.kind = "exception" THEN NoneDf
    ELSE IF r.status = 200
         THEN IF r.kind = "notjson" THEN NoneDf
              ELSE IF r.data = <<>> THEN NoneDf
              ELSE Df(r.data)
         ELSE NoneDf

\* fetch_historical_data from the historical GET on: the st.error text
FetchHistoricalMessage(r) ==
    IF r.kind = "exception" THEN {"Error fetching historical data"}
    ELSE IF r.status = 200
         THEN IF r.kind = "notjson" THEN {"Error fetching historical data"}
              ELSE IF r.data = <<>> THEN {"No historical data returned"}
              ELSE {}
         ELSE {"Failed to fetch historical data"}

(***************************************************************************)
(* create_candlestick_chart: the Date column is parsed and sorted in place *)
(***************************************************************************)
\* df['Date'] = pd.to_datetime(df['Date'], format='%d-%b-%Y', errors='coerce')
ParseDates(rows) ==
    [i \in DOMAIN rows |-> [rows[i] EXCEPT !.Date = ToDatetime(rows[i].Date)]]

Orders(n) == {p \in [1..n -> 1..n] : \A i, j \in 1..n : p[i] = p[j] => i = j}

\* a may stand before b in a frame sorted by Date: NaT sorts last
InOrder(a, b) == b.Date = NaT \/ (a.Date # NaT /\ a.Date <= b.Date)

\* the frame is left in the order it has
SortValues_Unsorted(rows) == {rows}

\* df.sort_values(by='Date'): the default quicksort is not stable, rows of
\* equal Date come out in any order
SortValues(rows) ==
    {[i \in DOMAIN rows |-> rows[p[i]]] :
        p \in {q \in Orders(Len(rows)) :
                  \A i, j \in DOMAIN rows : i < j => InOrder(rows[q[i]], rows[q[j]])}}

(***************************************************************************)
(* The uploaded CSV: load_and_process_data (app.py)                        *)
(***************************************************************************)
\* the lines of an uploaded file below its header line
\* "Date,Open,High,Low,Close", as the texts between the commas
UploadLine(d, o, h, l, c) == [Date |-> d, Open |-> o, High |-> h, Low |-> l, Close |-> c]

UploadLines ==
    {UploadLine("02-Jan-2025", "10", "12", "9", "11"),
     UploadLine("01-Feb-2025", "11", "12", "10", "12"),
     UploadLine("01-Feb-2025", "-", "12", "9", "11"),
     UploadLine("02-Jan-2025", "10", "12", "9", "abc"),
     UploadLine("02-Jan-2025", "10", "", "9", "11"),
     UploadLine("", "10", "12", "9", "11")}

\* pd.read_csv(dtype=str): an empty field and the default NA tokens are NaN
ReadCsvCell(text) == IF text \in {"", "NA", "n/a"} THEN Absent ELSE text

ReadCsvLine(line) ==
    [Date |-> ReadCsvCell(line.Date), Open |-> ReadCsvCell(line.Open),
     High |-> ReadCsvCell(line.High), Low |-> ReadCsvCell(line.Low),
     Close |-> ReadCsvCell(line.Close)]

\* df.replace('-', pd.NA) on every cell of a row
ReplaceDashRow(row) ==
    [Date |-> ReplaceDash(row.Date), Open |-> ReplaceDash(row.Open),
     High |-> ReplaceDash(row.High), Low |-> ReplaceDash(row.Low),
     Close |-> ReplaceDash(row.Close)]

\* the row survives df.dropna(): no cell of it is NA
NoNA(row) ==
    row.Date # Absent /\ row.Open # Absent /\ row.High # Absent
        /\ row.Low # Absent /\ row.Close # Absent

\* pd.to_numeric(errors='coerce') on the numeric columns of a row
ToNumericRow(row) ==
    [Date |-> row.Date, Open |-> ToNumeric(row.Open), High |-> ToNumeric(row.High),
     Low |-> ToNumeric(row.Low), Close |-> ToNumeric(row.Close)]

\* load_and_process_data: read, replace, dropna, and only then to_numeric
LoadAndProcessData(lines) ==
    LET read == [i \in DOMAIN lines |-> ReplaceDashRow(ReadCsvLine(lines[i]))]
        kept == SelectSeq(read, NoNA)
    IN  [i \in DOMAIN kept |-> ToNumericRow(kept[i])]

(***************************************************************************)
(* State of one run of fetch_strike_prices                                 *)
(***************************************************************************)
VARIABLES
    variant,          \* "retry" main01.fetch_strike_prices, "noretry" main.fetch_strike_prices
    symbol,
    instrument_type,
    expiry_date,
    to_date,
    pc,               \* position in fetch_strike_prices
    option_type,      \* index into option_types of the side being queried
    attempt,          \* loop variable of range(3)
    strike_prices,    \* the set strike_prices
    response,         \* the response the loop is handling
    collected,        \* per side, the strikes added by its response
    queries,          \* per side, the GETs sent to the historical endpoint
    failures,         \* per side, the attempts that raised
    warmups,          \* warm-up GETs sent in this call
    csv_file,         \* the snapshot as read by the fallback, UnreadFile if not read
    result,           \* the returned list
    source,           \* which return statement produced result
    messages,         \* st.error / st.warning texts shown in this call
    slept             \* time.sleep has run since the last GET of this call

VARIABLES
    f_variant,        \* "main01", "core" fetch_nse_data; "nseOptions" fetch_historical_data
    f_pc,             \* position in the fetch function
    nse_session,      \* the global nse_session of nseOptions.py
    f_response,       \* the answer to the historical GET of this call
    f_queries,        \* GETs sent to the historical endpoint in this call
    f_warmups,        \* warm-up GETs sent in this call
    df,               \* the value the call returned
    f_messages,       \* st.error texts shown in this call
    f_root,           \* status of the root-page warm-up of this call, 0: not answered
    f_deriv,          \* status of the derivatives-page warm-up of this call, 0: not answered
    script_calls,     \* calls of fetch_historical_data in this run of nseOptions.py
    charted,          \* create_candlestick_chart has run on df
    init_ok           \* a warm-up of initialize_nse_session has succeeded since the server started

VARIABLES
    program,          \* the script whose main() ran last
    strike_price,     \* the strike selected or typed in that run
    from_date,        \* the first day of the range of that run
    until_date,       \* the last day of the range of that run (to_date of main())
    invoked,          \* that run called the historical fetcher with these values
    session_df,       \* st.session_state.df (df_option) after that run
    prev_df,          \* st.session_state.df when that run started
    returned,         \* what the historical fetcher returned in that run
    displayed,        \* that run drew a chart of the stored series
    duration,         \* the "For Past" selection of that run (core.py)
    sell_df,          \* nseOptions.py: the frame fetched for the sold strike
    buy_df,           \* nseOptions.py: the frame fetched for the bought strike
    quantity,         \* nseOptions.py: the Quantity (Lots) input
    pnl               \* what calculate_credit_spread_pnl returned

uiVars == <<program, strike_price, from_date, until_date, invoked,
            session_df, prev_df, returned, displayed, duration,
            sell_df, buy_df, quantity, pnl>>

fetchVars == <<f_variant, f_pc, nse_session, f_response, f_queries, f_warmups, df, f_messages,
              f_root, f_deriv, script_calls, charted, init_ok>>

discVars == <<variant, symbol, instrument_type, expiry_date, to_date, pc, option_type,
              attempt, strike_prices, response, collected, queries, failures,
              warmups, csv_file, result, source, messages, slept>>

vars == <<discVars, fetchVars, uiVars>>

Variants == {"retry", "noretry"}

\* the selections of the user that the model follows
Requests ==
    {[symbol |-> "ABC", instrument_type |-> "OPTSTK", expiry_date |-> D27Mar],
     [symbol |-> "ABC", instrument_type |-> "OPTSTK", expiry_date |-> D24Apr],
     [symbol |-> "ABC", instrument_type |-> "FUTIDX", expiry_date |-> D27Mar]}

NoSide == [s \in {"CE", "PE"} |-> {}]
NoQueries == [s \in {"CE", "PE"} |-> 0]

Side == option_types[option_type]

Init ==
    /\ variant = "retry"
    /\ symbol = "ABC"
    /\ instrument_type = "OPTSTK"
    /\ expiry_date = D27Mar
    /\ to_date = D27Mar
    /\ pc = "idle"
    /\ option_type = 1
    /\ attempt = 0
    /\ strike_prices = {}
    /\ response = NoResp
    /\ collected = NoSide
    /\ queries = NoQueries
    /\ failures = NoQueries
    /\ warmups = 0
    /\ csv_file = UnreadFile
    /\ result = <<>>
    /\ source = "none"
    /\ messages = {}
    /\ slept = FALSE
    /\ f_variant = "main01"
    /\ f_pc = "idle"
    /\ nse_session = "None"
    /\ f_response = NoResp
    /\ f_queries = 0
    /\ f_warmups = 0
    /\ df = NoneDf
    /\ f_messages = {}
    /\ f_root = 0
    /\ f_deriv = 0
    /\ script_calls = 0
    /\ charted = FALSE
    /\ init_ok = FALSE
    /\ program = "main01"
    /\ strike_price = 0
    /\ from_date = 1 - 7
    /\ until_date = 1
    /\ invoked = FALSE
    /\ session_df = [kind |-> "None", strike |-> 0]
    /\ prev_df = [kind |-> "None", strike |-> 0]
    /\ returned = [kind |-> "not called", strike |-> 0]
    /\ displayed = FALSE
    /\ duration = "Custom"
    /\ sell_df = [columns |-> {}, rows |-> <<>>]
    /\ buy_df = [columns |-> {}, rows |-> <<>>]
    /\ quantity = 50
    /\ pnl = [none |-> TRUE, value |-> 0, message |-> "not run"]

\* main() calls fetch_strike_prices on every rerun of the script
Call ==
    /\ pc \in {"idle", "done", "raised"}
    /\ UNCHANGED <<fetchVars, uiVars>>
    /\ \E v \in Variants, q \in Requests, td \in {D27Mar, None} :
        /\ variant' = v
        /\ symbol' = q.symbol
        /\ instrument_type' = q.instrument_type
        /\ expiry_date' = q.expiry_date
        \* main.py takes no to_date: to_date = expiry_date
        /\ to_date' = IF v = "noretry" THEN q.expiry_date ELSE td
        \* main01.py:39 subtracts a timedelta from to_date before the None test
        /\ pc' = IF v = "retry" /\ td = None THEN "raised" ELSE "warm_root"
    /\ option_type' = 1
    /\ attempt' = 0
    /\ strike_prices' = {}
    /\ response' = NoResp
    /\ collected' = NoSide
    /\ queries' = NoQueries
    /\ failures' = NoQueries
    /\ warmups' = 0
    /\ csv_file' = UnreadFile
    /\ result' = <<>>
    /\ source' = "none"
    /\ messages' = {}
    /\ slept' = FALSE

\* the loop moves on to the next element of option_types, or ends
NextSide ==
    IF option_type = Len(option_types)
    THEN /\ pc' = "api_end"
         /\ UNCHANGED option_type
    ELSE /\ pc' = "query"
         /\ option_type' = option_type + 1

\* an exception that leaves the API part of the function
\* main01.py:123 falls through to the CSV part, main.py:87 returns [0]
ExceptReturn_Collected(sp) == IF sp = {} THEN <<0>> ELSE Sorted(sp)

\* main.py:87-89, except Exception: st.error(...); return [0]
ExceptReturn(sp) == <<0>>

ApiException ==
    IF variant = "retry"
    THEN /\ pc' = "csv"
         /\ messages' = messages \cup {"API error. Falling back to CSV."}
         /\ UNCHANGED <<result, source>>
    ELSE /\ pc' = "done"
         /\ messages' = messages \cup {"Error fetching historical strike prices"}
         /\ result' = ExceptReturn(strike_prices)
         /\ source' = "exception"

\* scraper.get("https://www.nseindia.com/"); time.sleep(1)
WarmRoot ==
    /\ pc = "warm_root"
    /\ UNCHANGED <<fetchVars, uiVars>>
    /\ warmups' = warmups + 1
    /\ \E o \in WarmOutcomes :
        /\ slept' = (o.kind # "exception")
        /\ IF o.kind = "exception"
           THEN ApiException
           ELSE /\ pc' = "warm_deriv"
                /\ UNCHANGED <<result, source, messages>>
    /\ UNCHANGED <<variant, symbol, instrument_type, expiry_date, to_date, option_type,
                   attempt, strike_prices, response, collected, queries, failures, csv_file>>

\* scraper.get(".../market-data/equity-derivatives-watch"); time.sleep(1)
WarmDeriv ==
    /\ pc = "warm_deriv"
    /\ UNCHANGED <<fetchVars, uiVars>>
    /\ warmups' = warmups + 1
    /\ \E o \in WarmOutcomes :
        /\ slept' = (o.kind # "exception")
        /\ IF o.kind = "exception"
           THEN ApiException
           ELSE /\ pc' = "query"
                /\ UNCHANGED <<result, source, messages>>
    /\ UNCHANGED <<variant, symbol, instrument_type, expiry_date, to_date, option_type,
                   attempt, strike_prices, response, collected, queries, failures, csv_file>>

\* main01.py:83-108, one pass of "for attempt in range(3)" up to the sleep:
\* the GET for the current side and the handling of its response
QueryRetry ==
    /\ pc = "query"
    /\ UNCHANGED <<fetchVars, uiVars>>
    /\ variant = "retry"
    /\ \E r \in DiscResponses :
        /\ response' = r
        /\ queries' = [queries EXCEPT ![Side] = @ + 1]
        /\ failures' = [failures EXCEPT ![Side] = IF GetRaises(r) THEN @ + 1 ELSE @]
        /\ IF GetRaises(r)
           THEN /\ messages' = messages \cup {"API attempt failed for " \o Side}
                /\ UNCHANGED <<strike_prices, collected>>
           ELSE /\ strike_prices' = Update(strike_prices, ValidStrikes(r))
                /\ collected' = [collected EXCEPT ![Side] = ValidStrikes(r)]
                /\ UNCHANGED messages
    /\ pc' = "sleep"
    /\ slept' = FALSE
    /\ UNCHANGED <<variant, symbol, instrument_type, expiry_date, to_date, option_type,
                   attempt, warmups, csv_file, result, source>>

\* main.py:73-81, the GET for the current side and the handling of its response
QueryNoRetry ==
    /\ pc = "query"
    /\ UNCHANGED <<fetchVars, uiVars>>
    /\ variant = "noretry"
    /\ \E r \in DiscResponses :
        /\ response' = r
        /\ queries' = [queries EXCEPT ![Side] = @ + 1]
        /\ failures' = [failures EXCEPT ![Side] = IF GetRaises(r) THEN @ + 1 ELSE @]
        /\ IF GetRaises(r)
           THEN /\ ApiException
                /\ UNCHANGED <<strike_prices, collected>>
           ELSE /\ strike_prices' = Update(strike_prices, AllStrikes(r))
                /\ collected' = [collected EXCEPT ![Side] = AllStrikes(r)]
                /\ pc' = "sleep"
                /\ UNCHANGED <<result, source, messages>>
    /\ slept' = FALSE
    /\ UNCHANGED <<variant, symbol, instrument_type, expiry_date, to_date, option_type,
                   attempt, warmups, csv_file>>

\* the except branch does not sleep
Sleeps_OnlyWhenHandled(r) == ~GetRaises(r)

\* the handling of a response ends with a time.sleep, whether the response
\* was handled (time.sleep(1)) or the attempt raised (time.sleep(2))
Sleeps(r) == TRUE

\* time.sleep(1); break                      after a response that was handled
\* time.sleep(2); if attempt == 2: st.error  after an attempt that raised
Sleep ==
    /\ pc = "sleep"
    /\ UNCHANGED <<fetchVars, uiVars>>
    /\ response' = NoResp
    /\ slept' = Sleeps(response)
    /\ IF GetRaises(response)
       THEN /\ messages' = messages \cup
                   (IF attempt = LastAttempt
                    THEN {"Failed to fetch strike prices for " \o Side} ELSE {})
            /\ IF attempt + 1 < MaxAttempts
               THEN /\ attempt' = attempt + 1
                    /\ pc' = "query"
                    /\ UNCHANGED option_type
               ELSE /\ attempt' = 0
                    /\ NextSide
       ELSE /\ attempt' = 0
            /\ NextSide
            /\ UNCHANGED messages
    /\ UNCHANGED <<variant, symbol, instrument_type, expiry_date, to_date, strike_prices,
                   collected, queries, failures, warmups, csv_file, result, source>>

\* if strike_prices: return sorted(list(strike_prices))
ApiReturn ==
    /\ pc = "api_end"
    /\ UNCHANGED <<fetchVars, uiVars>>
    /\ Truthy(strike_prices)
    /\ result' = Sorted(strike_prices)
    /\ source' = "api"
    /\ pc' = "done"
    /\ UNCHANGED <<variant, symbol, instrument_type, expiry_date, to_date, option_type,
                   attempt, strike_prices, response, collected, queries, failures, warmups,
                   csv_file, messages, slept>>

\* no strike from either side: main01.py goes on to the CSV part,
\* main.py returns [0]
ApiEmpty ==
    /\ pc = "api_end"
    /\ UNCHANGED <<fetchVars, uiVars>>
    /\ ~Truthy(strike_prices)
    /\ IF variant = "retry"
       THEN /\ pc' = "csv"
            /\ messages' = messages \cup {"No strike prices from API. Falling back to CSV."}
            /\ UNCHANGED <<result, source>>
       ELSE /\ pc' = "done"
            /\ result' = <<0>>
            /\ source' = "placeholder"
            /\ UNCHANGED messages
    /\ UNCHANGED <<variant, symbol, instrument_type, expiry_date, to_date, option_type,
                   attempt, strike_prices, response, collected, queries, failures, warmups, csv_file,
                   slept>>

\* main01.py:127-162, the file being what it is when the function looks at it
CsvFallback ==
    /\ pc = "csv"
    /\ UNCHANGED <<fetchVars, uiVars>>
    /\ \E file \in CsvFiles :
        /\ csv_file' = file
        /\ result' = CsvFallbackResult(file, symbol, instrument_type, expiry_date)
        /\ source' = CsvSource(file, symbol, instrument_type, expiry_date)
    /\ pc' = "done"
    /\ UNCHANGED <<variant, symbol, instrument_type, expiry_date, to_date, option_type,
                   attempt, strike_prices, response, collected, queries, failures, warmups, messages,
                   slept>>

Next ==
    \/ Call
    \/ WarmRoot
    \/ WarmDeriv
    \/ QueryRetry
    \/ QueryNoRetry
    \/ Sleep
    \/ ApiReturn
    \/ ApiEmpty
    \/ CsvFallback

Spec == Init /\ [][Next]_vars

(***************************************************************************)
(* One run of the historical fetcher                                       *)
(***************************************************************************)
FetchVariants == {"main01", "core", "nseOptions"}

\* the fetch returns v, showing the texts in m
FetchReturns(v, m) ==
    /\ f_pc' = "done"
    /\ df' = v
    /\ f_messages' = f_messages \cup m

\* fetch_historical_data is called for the sell strike and for the buy strike
CallsPerRun == 2

\* a run of the script nseOptions.py starts: the server executes the file
\* from its first line in a new namespace, so "nse_session = None" runs again
RunScript ==
    /\ f_pc \in {"idle", "done"}
    /\ UNCHANGED <<discVars, uiVars>>
    /\ nse_session' = "None"
    /\ script_calls' = 0
    /\ UNCHANGED <<f_variant, f_pc, f_response, f_queries, f_warmups, df, f_messages,
                   f_root, f_deriv, init_ok, charted>>

\* "Fetch Data" / "Run Backtest": the function is entered; nseOptions.py
\* enters initialize_nse_session, which warms up only if nse_session is None
FetchCall ==
    /\ f_pc \in {"idle", "done", "raised"}
    /\ UNCHANGED <<discVars, uiVars>>
    /\ \E v \in FetchVariants :
        /\ f_variant' = v
        /\ IF v = "nseOptions"
           THEN /\ script_calls < CallsPerRun
                /\ script_calls' = script_calls + 1
                /\ IF nse_session = "None"
                   THEN nse_session' = "Session" /\ f_pc' = "init_root"
                   ELSE UNCHANGED nse_session /\ f_pc' = "hist"
           ELSE UNCHANGED <<nse_session, script_calls>> /\ f_pc' = "warm_root"
    /\ charted' = FALSE
    /\ UNCHANGED init_ok
    /\ f_response' = NoResp
    /\ f_queries' = 0
    /\ f_warmups' = 0
    /\ df' = NoneDf
    /\ f_messages' = {}
    /\ f_root' = 0
    /\ f_deriv' = 0

\* fetch_nse_data: scraper.get("https://www.nseindia.com/")
\* main01.py: inside the try, the status is not looked at
\* core.py:   outside the try, "if response.status_code != 200: return None"
FetchWarmRoot ==
    /\ f_pc = "warm_root"
    /\ UNCHANGED <<discVars, uiVars>>
    /\ f_warmups' = f_warmups + 1
    /\ \E o \in WarmOutcomes :
        /\ f_root' = o.status
        /\ IF o.kind = "exception"
           THEN IF f_variant = "main01"
                THEN FetchReturns(NoneDf, {"Error fetching data"})
                ELSE f_pc' = "raised" /\ UNCHANGED <<df, f_messages>>
           ELSE IF f_variant = "core" /\ o.status # 200
                THEN FetchReturns(NoneDf, {"Failed to load homepage"})
                ELSE f_pc' = "warm_deriv" /\ UNCHANGED <<df, f_messages>>
    /\ UNCHANGED <<f_deriv, f_variant, nse_session, f_response, f_queries, script_calls, init_ok, charted>>

\* fetch_nse_data: scraper.get(".../market-data/equity-derivatives-watch")
FetchWarmDeriv ==
    /\ f_pc = "warm_deriv"
    /\ UNCHANGED <<discVars, uiVars>>
    /\ f_warmups' = f_warmups + 1
    /\ \E o \in WarmOutcomes :
        /\ f_deriv' = o.status
        /\ IF o.kind = "exception"
           THEN IF f_variant = "main01"
                THEN FetchReturns(NoneDf, {"Error fetching data"})
                ELSE f_pc' = "raised" /\ UNCHANGED <<df, f_messages>>
           ELSE f_pc' = "hist" /\ UNCHANGED <<df, f_messages>>
    /\ UNCHANGED <<f_root, f_variant, nse_session, f_response, f_queries, script_calls, init_ok, charted>>

\* initialize_nse_session: nse_session.get("https://www.nseindia.com/");
\* on False fetch_historical_data returns None
InitRoot ==
    /\ f_pc = "init_root"
    /\ UNCHANGED <<discVars, uiVars>>
    /\ f_warmups' = f_warmups + 1
    /\ \E o \in WarmOutcomes :
        /\ f_root' = o.status
        /\ IF o.kind = "exception"
           THEN FetchReturns(NoneDf, {"Session initialization failed"})
           ELSE IF o.status # 200
                THEN FetchReturns(NoneDf, {"Failed to load homepage"})
                ELSE f_pc' = "init_deriv" /\ UNCHANGED <<df, f_messages>>
    /\ UNCHANGED <<f_deriv, f_variant, nse_session, f_response, f_queries, script_calls, init_ok, charted>>

\* initialize_nse_session: nse_session.get(".../equity-derivatives-watch")
InitDeriv ==
    /\ f_pc = "init_deriv"
    /\ UNCHANGED <<discVars, uiVars>>
    /\ f_warmups' = f_warmups + 1
    /\ \E o \in WarmOutcomes :
        /\ f_deriv' = o.status
        /\ IF o.kind = "exception"
           THEN FetchReturns(NoneDf, {"Session initialization failed"})
           ELSE IF o.status # 200
                THEN FetchReturns(NoneDf, {"Failed to load derivatives page"})
                ELSE f_pc' = "hist" /\ UNCHANGED <<df, f_messages>>
    /\ init_ok' = (init_ok \/ f_pc' = "hist")
    /\ UNCHANGED <<f_root, f_variant, nse_session, f_response, f_queries, script_calls, charted>>

\* a GET that raised is sent again
AfterHistGet_Retry(r) == IF GetRaises(r) THEN "hist" ELSE "done"

\* where the function stands after the historical GET: it has returned
AfterHistGet(r) == "done"

\* the GET to the historical endpoint and the handling of its answer
HistGet ==
    /\ f_pc = "hist"
    /\ UNCHANGED <<discVars, uiVars>>
    /\ \E r \in FetchResponses :
        /\ f_response' = r
        /\ f_queries' = f_queries + 1
        /\ f_pc' = AfterHistGet(r)
        /\ IF f_variant = "nseOptions"
           THEN /\ df' = FetchHistoricalResult(r)
                /\ f_messages' = f_messages \cup FetchHistoricalMessage(r)
           ELSE /\ df' = FetchNseDataResult(r)
                /\ f_messages' = f_messages \cup FetchNseDataMessage(r)
    /\ UNCHANGED <<f_variant, nse_session, f_warmups, f_root, f_deriv, script_calls, init_ok, charted>>

\* main(): the returned frame is not None and not empty and is handed to
\* create_candlestick_chart, which works on the frame itself
CreateChart ==
    /\ f_pc = "done"
    /\ f_variant \in {"main01", "core"}
    /\ ~charted
    /\ ~df.none
    /\ df.rows # <<>>
    /\ UNCHANGED <<discVars, uiVars>>
    /\ \E sorted \in SortValues(ParseDates(df.rows)) : df' = Df(sorted)
    /\ charted' = TRUE
    /\ UNCHANGED <<f_variant, f_pc, nse_session, f_response, f_queries, f_warmups,
                   f_messages, f_root, f_deriv, script_calls, init_ok>>

\* app.py main(): a file is uploaded and written to the uploads folder
Upload ==
    /\ f_pc \in {"idle", "done", "raised"}
    /\ UNCHANGED <<discVars, uiVars>>
    /\ f_variant' = "app"
    /\ f_pc' = "load"
    /\ f_response' = NoResp
    /\ df' = NoneDf
    /\ f_queries' = 0
    /\ f_warmups' = 0
    /\ f_messages' = {}
    /\ f_root' = 0
    /\ f_deriv' = 0
    /\ charted' = FALSE
    /\ UNCHANGED <<nse_session, script_calls, init_ok>>

\* app.py: load_and_process_data reads the saved file and returns its frame
LoadAndProcess ==
    /\ f_pc = "load"
    /\ UNCHANGED <<discVars, uiVars>>
    /\ \E lines \in SeqsUpTo(UploadLines, MaxUploadLines) \ {<<>>} :
        /\ f_response' = [kind |-> "upload", status |-> 0, data |-> lines]
        /\ df' = Df(LoadAndProcessData(lines))
    /\ f_pc' = "done"
    /\ UNCHANGED <<f_variant, nse_session, f_queries, f_warmups, f_messages, f_root, f_deriv,
                   script_calls, init_ok, charted>>

NextFetch ==
    \/ RunScript
    \/ Upload
    \/ LoadAndProcess
    \/ CreateChart
    \/ FetchCall
    \/ FetchWarmRoot
    \/ FetchWarmDeriv
    \/ InitRoot
    \/ InitDeriv
    \/ HistGet

SpecFetch == Init /\ [][NextFetch]_vars

(***************************************************************************)
(* One run of main(): the widgets, the validation and the "Fetch Data" /   *)
(* "Run Backtest" button                                                   *)
(***************************************************************************)
\* calendar days the date widgets can hold, as consecutive ordinals
Days == 1..MaxDay

\* the options of the strike selectbox: a list fetch_strike_prices returned,
\* [0] included
StrikeOptions == {0, 100, 550}

\* values typed into a st.number_input
TypedNumbers == {0 - 5, 0, 840, 1000, 23000}

\* date_range_days of main01.py, the shortest and the longest
DateRangeDays == {7, 90}

\* a run of main(): the widget values, and whether the run called the fetcher
\* what the script holds for the fetched series: None, an empty frame, or a
\* frame with the rows of the contract it was fetched for
NoneSeries == [kind |-> "None", strike |-> 0]

EmptySeries == [kind |-> "empty", strike |-> 0]

Series(s) == [kind |-> "series", strike |-> s]

NotCalled == [kind |-> "not called", strike |-> 0]

Raised == [kind |-> "raised", strike |-> 0]

\* the outcomes of one call of the historical fetcher; core.py and core11bk.py
\* make the warm-up GETs outside the try, so the call can raise
FetchOutcomes(p, s) ==
    {NoneSeries, EmptySeries, Series(s)}
        \cup (IF p \in {"core", "core11bk"} THEN {Raised} ELSE {})

\* the scripts that keep the series in st.session_state; nseOptions.py holds it
\* in the locals sell_df and buy_df of the button branch
Persists(p) == p # "nseOptions"

Store_KeepOnFailure(old, new) == IF new.kind = "None" THEN old ELSE new

\* st.session_state.df = fetch_nse_data(...)
Store(old, new) == new

Displays_NonNone(d) == d.kind # "None"

\* if st.session_state.df is not None and not st.session_state.df.empty: chart
Displays(d) == d.kind = "series"

Run(s, fd, td, called) ==
    /\ strike_price' = s
    /\ from_date' = fd
    /\ until_date' = td
    /\ invoked' = called
    /\ prev_df' = IF Persists(program') /\ program' = program
                  THEN session_df ELSE NoneSeries
    /\ \E v \in (IF called THEN FetchOutcomes(program', s) ELSE {NotCalled}) :
          /\ returned' = v
          /\ session_df' = IF called /\ v # Raised
                           THEN Store(prev_df', v) ELSE prev_df'
          /\ displayed' = (v # Raised /\ Displays(session_df'))
    /\ UNCHANGED <<discVars, fetchVars, sell_df, buy_df, quantity, pnl>>

\* main01.py: from_date = to_date - timedelta(days=selected_date_range_days);
\* the button is disabled unless strike_price > 0
MainMain01 ==
    \E s \in StrikeOptions, td \in Days, n \in DateRangeDays, click \in BOOLEAN :
        LET fd == td - n
            all_fields_filled == s > 0
        IN  /\ ~(td < fd)
            /\ click => all_fields_filled
            /\ program' = "main01"
            /\ duration' = "Custom"
            /\ Run(s, fd, td, click /\ all_fields_filled)

\* main.py: from_date = expiry_date - timedelta(days=90), to_date = expiry_date
MainMain ==
    \E s \in StrikeOptions, expiry \in Days, click \in BOOLEAN :
        LET all_fields_filled == s > 0
        IN  /\ click => all_fields_filled
            /\ program' = "main"
            /\ duration' = "Custom"
            /\ Run(s, expiry - 90, expiry, click /\ all_fields_filled)

PREDEFINED_DURATIONS == {"Custom", "1D", "1W", "1M", "1.5M", "3M"}

\* datetime(2025, 3, 30), the default of the To Date widget, on the scale of Days
Mar30 == 2

calculate_from_date(td, d) ==
    CASE d = "1D" -> td - 1
      [] d = "1W" -> td - 7
      [] d = "1M" -> td - 30
      [] d = "1.5M" -> td - 45
      [] d = "3M" -> td - 90
      [] OTHER -> None

\* core.py: number_input(min_value=0), From Date disabled and computed from
\* datetime(2025, 3, 30) for a preset duration, To Date with min_value =
\* from_date + 1 day, all_fields_filled with from_date < to_date and
\* strike_price > 0
MainCore ==
    \E s \in {n \in TypedNumbers : n >= 0}, d \in PREDEFINED_DURATIONS,
       entered \in Days, click \in BOOLEAN :
        LET calculated_from_date ==
                IF d # "Custom" THEN calculate_from_date(Mar30, d) ELSE None
            fd == IF d # "Custom" /\ calculated_from_date # None
                  THEN calculated_from_date ELSE entered
        IN  \E td \in {t \in Days : t >= fd + 1} :
                LET all_fields_filled == fd < td /\ s > 0
                IN  /\ click => all_fields_filled
                    /\ program' = "core"
                    /\ duration' = d
                    /\ Run(s, fd, td, click /\ all_fields_filled)

\* core11bk.py: number_input(value=840) and two date inputs without limits,
\* st.button("Fetch Data") without a disabled condition
MainCore11bk ==
    \E s \in TypedNumbers, fd \in Days, td \in Days, click \in BOOLEAN :
        /\ program' = "core11bk"
        /\ duration' = "Custom"
        /\ Run(s, fd, td, click)

\* nseOptions.py: Expiry Date with min_value = start_date, Sell Call Strike
\* with min_value = 1000.0; fetch_historical_data(start_date, expiry_date, ...)
MainNseOptions ==
    \E s \in {n \in TypedNumbers : n >= 1000}, start_date \in Days, click \in BOOLEAN :
        \E expiry \in {d \in Days : d >= start_date} :
            /\ program' = "nseOptions"
            /\ duration' = "Custom"
            /\ Run(s, start_date, expiry, click)

NextMain ==
    \/ MainMain01
    \/ MainMain
    \/ MainCore
    \/ MainCore11bk
    \/ MainNseOptions

SpecMain == Init /\ [][NextMain]_vars

(***************************************************************************)
(* nseOptions.py: the profit and loss of the credit call spread            *)
(***************************************************************************)

\* one record of the endpoint as a row of the raw frame; the close is carried
\* under the names the scripts of the repository use for it
LegRow(d, c) ==
    [FH_TIMESTAMP |-> d, FH_CLOSING_PRICE |-> c, FH_LAST_TRADED_PRICE |-> c + d,
     FH_CLOSE |-> c, CLOSE |-> c, LAST |-> c + d, LTP |-> c + d]

LegRows == {LegRow(d, c) : d \in {1, 2}, c \in {10, 30}}

\* the column names a fetched frame may carry: the endpoint's names as
\* main01.py and core.py rename them, and the names nseOptions.py looks for
ColumnSets ==
    { {"FH_TIMESTAMP", "FH_CLOSING_PRICE", "FH_LAST_TRADED_PRICE"},
      {"FH_TIMESTAMP", "FH_CLOSE", "LTP"},
      {"FH_TIMESTAMP", "LTP"} }

\* fetch_historical_data returns None for an empty frame, so a leg has a row
Legs ==
    {[columns |-> cs, rows |-> rs] :
        cs \in ColumnSets, rs \in SeqsUpTo(LegRows, MaxLegRows) \ {<<>>}}

Quantities == {1, 50}

CloseCandidates == <<"FH_CLOSE", "CLOSE", "LAST", "LTP">>

\* next((col for col in [...] if col in sell_df.columns and col in
\* buy_df.columns), None)
CloseCol(sell, buy) ==
    LET hits == {i \in 1..Len(CloseCandidates) :
                    /\ CloseCandidates[i] \in sell.columns
                    /\ CloseCandidates[i] \in buy.columns}
    IN  IF hits = {} THEN Absent ELSE CloseCandidates[Min(hits)]

ILocFirst(leg, col) == leg.rows[1][col]

ILocLast_First(leg, col) == leg.rows[1][col]

ILocLast(leg, col) == leg.rows[Len(leg.rows)][col]

calculate_credit_spread_pnl(sell, buy, q) ==
    LET close_col == CloseCol(sell, buy)
        initial_net_premium == ILocFirst(sell, close_col) - ILocFirst(buy, close_col)
        final_net_premium == ILocLast(sell, close_col) - ILocLast(buy, close_col)
    IN  IF close_col = Absent
        THEN [none |-> TRUE, value |-> 0,
              message |-> "Missing close price column for P/L calculation"]
        ELSE [none |-> FALSE,
              value |-> (initial_net_premium - final_net_premium) * q,
              message |-> "Initial Net Premium, Final Net Premium, P/L"]

NoLeg == [columns |-> {}, rows |-> <<>>]

NotRun == [none |-> TRUE, value |-> 0, message |-> "not run"]

PnlRest ==
    UNCHANGED <<discVars, fetchVars, program, strike_price, from_date,
                until_date, invoked, session_df, prev_df, returned,
                displayed, duration>>

\* Run Backtest: both calls of fetch_historical_data returned a frame
FetchLegs ==
    /\ sell_df = NoLeg
    /\ \E s \in Legs, b \in Legs, q \in Quantities :
        /\ sell_df' = s
        /\ buy_df' = b
        /\ quantity' = q
    /\ UNCHANGED pnl
    /\ PnlRest

\* pnl, message = calculate_credit_spread_pnl(sell_df, buy_df, ...)
Backtest ==
    /\ sell_df # NoLeg
    /\ pnl = NotRun
    /\ pnl' = calculate_credit_spread_pnl(sell_df, buy_df, quantity)
    /\ UNCHANGED <<sell_df, buy_df, quantity>>
    /\ PnlRest

\* the next run of the script starts without the locals of the last one
PnlRerun ==
    /\ pnl # NotRun
    /\ sell_df' = NoLeg
    /\ buy_df' = NoLeg
    /\ pnl' = NotRun
    /\ UNCHANGED quantity
    /\ PnlRest

NextPnl ==
    \/ FetchLegs
    \/ Backtest
    \/ PnlRerun

SpecPnl == Init /\ [][NextPnl]_vars

(***************************************************************************)
(* Properties                                                              *)
(***************************************************************************)
StrictlyAscending(seq) == \A i, j \in DOMAIN seq : i < j => seq[i] < seq[j]
SetOf(seq) == {seq[i] : i \in DOMAIN seq}
Union == collected["CE"] \cup collected["PE"]

\* a side succeeded: one of its attempts did not raise
Succeeded(s) == queries[s] > failures[s]

\* the response of the current side was handled without raising and has rows
Handled == pc = "sleep" /\ ~GetRaises(response) /\ HasData(response)
StampOf(i) == ToDatetime(response.data[i].FH_TIMESTAMP)
NumberOf(i) == ToNumeric(response.data[i].FH_STRIKE_PRICE)
HasStampField == \E i \in DOMAIN response.data : response.data[i].FH_TIMESTAMP # Absent
\* the rows of the latest trading day of the response
LatestRows ==
    {i \in DOMAIN response.data :
        StampOf(i) # NaT /\ \A j \in DOMAIN response.data : StampOf(j) <= StampOf(i)}

\* C1: whatever the API answers and whatever the snapshot file holds, a
\* returned strike list is never empty: it is a non-empty strictly ascending
\* (hence distinct) list or the placeholder [0].
C1_NeverEmpty ==
    pc = "done" =>
        /\ Len(result) >= 1
        /\ StrictlyAscending(result) \/ result = <<0>>

\* every attempt of both sides raised and the snapshot has no usable row
C1_Witness ==
    /\ pc = "done"
    /\ variant = "retry"
    /\ failures["CE"] = 3 /\ failures["PE"] = 3
    /\ csv_file.state = "table"
    /\ csv_file.rows # <<>>
    /\ result = <<0>>

\* C2 as stated: whenever both the CE and the PE query succeed, the returned
\* list is the union of the strikes collected from the two sides, without
\* duplicates, ascending.
C2_UnionWhenBothSucceed ==
    variant = "retry" /\ pc = "done" /\ Succeeded("CE") /\ Succeeded("PE") =>
        SetOf(result) = Union /\ StrictlyAscending(result)

\* C2 amended: whenever both queries succeed and at least one strike was
\* collected, the returned list is the union of the strikes collected from
\* the two sides, without duplicates, ascending.
C2_UnionWhenStrikes ==
    variant = "retry" /\ pc = "done" /\ Succeeded("CE") /\ Succeeded("PE") /\ Union # {} =>
        SetOf(result) = Union /\ StrictlyAscending(result)

\* CE {100, 200} and PE {200, 300} give [100, 200, 300]
C2_Witness ==
    /\ pc = "done"
    /\ variant = "retry"
    /\ collected["CE"] = {100, 200}
    /\ collected["PE"] = {200, 300}
    /\ result = <<100, 200, 300>>

\* C3: a handled response with a timestamp field contributes exactly the
\* strikes of its rows of the latest day; a strike seen only on older days
\* is not contributed.
C3_LatestDayOnly ==
    variant = "retry" /\ Handled /\ HasStampField =>
        /\ collected[Side] = {NumberOf(i) : i \in LatestRows} \ {NaN}
        /\ \A i \in DOMAIN response.data :
              (/\ \E j \in DOMAIN response.data : StampOf(j) > StampOf(i)
               /\ \A j \in LatestRows : NumberOf(j) # NumberOf(i))
              => NumberOf(i) \notin collected[Side]

\* strike 100 on 2 January, strike 200 on 1 February: only 200 is collected
C3_Witness ==
    /\ variant = "retry"
    /\ Handled
    /\ response.data = << [FH_STRIKE_PRICE |-> "100", FH_TIMESTAMP |-> "02-Jan-2025"],
                          [FH_STRIKE_PRICE |-> "200", FH_TIMESTAMP |-> "01-Feb-2025"] >>
    /\ collected[Side] = {200}

\* C4: a handled response without a timestamp field contributes the strikes
\* of all its records.
C4_NoStampCollectsAll ==
    Handled /\ ~HasStampField =>
        collected[Side] = {NumberOf(i) : i \in DOMAIN response.data} \ {NaN}

\* records with strikes 100 and 200 and no timestamp: both are collected
C4_Witness ==
    /\ variant = "retry"
    /\ Handled
    /\ response.data = << [FH_STRIKE_PRICE |-> "100", FH_TIMESTAMP |-> Absent],
                          [FH_STRIKE_PRICE |-> "200", FH_TIMESTAMP |-> Absent] >>
    /\ collected[Side] = {100, 200}

\* C5: a handled response whose timestamp field is present but parseable in
\* no row (no latest day exists) still contributes the strikes of its rows.
C5_NoLatestDayKeepsStrikes ==
    variant = "retry" /\ Handled /\ HasStampField /\ LatestRows = {} =>
        collected[Side] = {NumberOf(i) : i \in DOMAIN response.data} \ {NaN}

\* the API path is over: a warm-up raised or the loop went through both sides
ApiOver ==
    /\ pc \in {"csv", "done"}
    /\ \/ "API error. Falling back to CSV." \in messages
       \/ queries["CE"] >= 1 /\ queries["PE"] >= 1

\* C6: the snapshot is read only after the API path ended with an empty
\* union; with a strike from either side the API union is returned and the
\* snapshot is never read; with an empty union and no snapshot file the
\* placeholder [0] is returned.
C6_SnapshotOnlyAfterApi ==
    variant = "retry" =>
        /\ Union # {} => csv_file = UnreadFile /\ pc # "csv"
        /\ pc = "done" /\ Union # {} =>
              SetOf(result) = Union /\ StrictlyAscending(result) /\ source = "api"
        /\ csv_file # UnreadFile => Union = {} /\ ApiOver
        /\ pc = "done" /\ Union = {} /\ csv_file = AbsentFile => result = <<0>>

\* both sides answered without strikes, the file is absent, [0] is returned
C6_Witness ==
    /\ variant = "retry"
    /\ pc = "done"
    /\ Succeeded("CE") /\ Succeeded("PE")
    /\ Union = {}
    /\ csv_file = AbsentFile
    /\ result = <<0>>

\* the calendar day an EXPIRY_DT cell of the snapshot denotes
CsvExpiryDate(cell) ==
    CASE cell \in {"27-Mar-2025", "27-MAR-2025"} -> D27Mar
      [] cell \in {"24-Apr-2025", "24-APR-2025"} -> D24Apr
      [] OTHER -> None

\* the snapshot rows of the requested symbol, instrument type and expiry
\* with option type CE or PE
CsvMatching ==
    {i \in DOMAIN csv_file.rows :
        /\ csv_file.rows[i].SYMBOL = symbol
        /\ csv_file.rows[i].INSTRUMENT = instrument_type
        /\ CsvExpiryDate(csv_file.rows[i].EXPIRY_DT) = expiry_date
        /\ csv_file.rows[i].OPTION_TYP \in {"CE", "PE"}}

\* C7: the CSV fallback returns the distinct STRIKE_PR values, ascending, of
\* the snapshot rows of the requested symbol, instrument type and expiry
\* with option type CE or PE, and [0] when no row matches.
C7_CsvFallback ==
    /\ pc = "done"
    /\ csv_file.state = "table"
    /\ csv_file.header = CanonicalHeader
    /\ instrument_type \in {"OPTSTK", "OPTIDX"}
    => LET strikes == {ToNumeric(csv_file.rows[i].STRIKE_PR) : i \in CsvMatching} \ {NaN}
       IN  IF strikes = {}
           THEN result = <<0>>
           ELSE SetOf(result) = strikes /\ StrictlyAscending(result)

\* C8: a side is queried at most 3 times and not again after an attempt
\* that did not fail; when all 3 attempts for CE failed, the failure is
\* reported, PE is still queried and the strikes obtained from PE are
\* returned.
C8_ThreeAttemptsPerSide ==
    variant = "retry" =>
        /\ \A s \in {"CE", "PE"} : queries[s] <= 3 /\ queries[s] <= failures[s] + 1
        /\ pc = "query" => queries[Side] = failures[Side]
        /\ failures["CE"] = 3 /\ (option_type = 2 \/ pc \in {"api_end", "csv", "done"})
              => "Failed to fetch strike prices for CE" \in messages
        /\ failures["CE"] = 3 /\ pc \in {"api_end", "csv", "done"} => queries["PE"] >= 1
        /\ failures["CE"] = 3 /\ pc = "done" /\ collected["PE"] # {}
              => SetOf(result) = collected["PE"] /\ StrictlyAscending(result)

\* CE failed three times, PE answered at its second attempt with 100 and 300
C8_Witness ==
    /\ variant = "retry"
    /\ pc = "done"
    /\ failures["CE"] = 3
    /\ queries["PE"] = 2
    /\ collected["PE"] = {100, 300}
    /\ result = <<100, 300>>

\* the historical GET failed: it raised, or its status is not a success
\* status, or its body is not JSON
NonSuccess(r) == r.kind # "exception" /\ (r.status < 200 \/ r.status >= 300)
HistFailed(r) == r.kind = "exception" \/ NonSuccess(r) \/ r.kind = "notjson"
ErrorTexts ==
    {"Error fetching data", "Error fetching historical data", "Failed to fetch historical data"}

\* C9: a call of the historical fetcher sends at most one GET to the
\* historical endpoint, has returned once that GET is answered, and a failed
\* GET is the result of the call: None with an error shown.
C9_NoRetryInFetcher ==
    /\ f_queries <= 1
    /\ f_queries = 1 => f_pc = "done"
    /\ f_queries = 1 /\ HistFailed(f_response) => df = NoneDf /\ f_messages # {}

\* the single GET raised and the call returned None
C9_Witness ==
    /\ f_variant = "nseOptions"
    /\ f_pc = "done"
    /\ f_queries = 1
    /\ f_response = Exception
    /\ df = NoneDf

\* C10: a historical fetch whose endpoint answers with a non-success status
\* or with a body that is not JSON returns no table, complete or partial,
\* and shows an error.
C10_NoTableOnError ==
    f_pc = "done" /\ f_queries = 1 /\ (NonSuccess(f_response) \/ f_response.kind = "notjson")
        => df = NoneDf /\ f_messages \cap ErrorTexts # {}

\* HTTP 500 with a JSON body that carries a record: fetch_nse_data returns None
C10_Witness ==
    /\ f_variant = "main01"
    /\ f_pc = "done"
    /\ f_response.status = 500
    /\ f_response.kind = "data"
    /\ df = NoneDf
    /\ "Error fetching data" \in f_messages

\* the value and the texts a historical GET answered by r gives in variant v
HistResult(v, r) ==
    IF v = "nseOptions" THEN FetchHistoricalResult(r) ELSE FetchNseDataResult(r)
HistMessage(v, r) ==
    IF v = "nseOptions" THEN FetchHistoricalMessage(r) ELSE FetchNseDataMessage(r)

\* a well-formed answer without records: status 200, a JSON body, the data
\* array missing or empty
EmptyResult(r) == r.kind \in {"nokey", "data"} /\ r.status = 200 /\ ~HasData(r)
NoDataTexts == {"No historical data found", "No historical data returned"}

\* C11 as stated: the value returned for a well-formed answer without
\* records differs from the value returned for every failed GET (exception,
\* non-success status, body that is not JSON), so that the caller can tell
\* the two apart.
C11_CallerDistinguishes ==
    f_pc = "done" /\ f_queries = 1 /\ EmptyResult(f_response)
        => \A r \in FetchResponses : HistFailed(r) => HistResult(f_variant, r) # df

\* C11 amended: a well-formed answer without records returns None, the value
\* a failed GET returns too, and shows a no-data text that no failed GET
\* shows and none of the error texts of a failed GET.
C11_MessageDistinguishes ==
    f_pc = "done" /\ f_queries = 1 /\ EmptyResult(f_response)
        => /\ df = NoneDf
           /\ f_messages \cap NoDataTexts # {}
           /\ f_messages \cap ErrorTexts = {}
           /\ \A r \in FetchResponses :
                HistFailed(r) => /\ HistResult(f_variant, r) = df
                                 /\ HistMessage(f_variant, r) \cap f_messages = {}

\* core.py got a JSON body without the data key
C11_Witness ==
    /\ f_variant = "core"
    /\ f_pc = "done"
    /\ f_queries = 1
    /\ f_response.kind = "nokey"
    /\ f_response.status = 200
    /\ df = NoneDf
    /\ f_messages = {"No historical data found"}

\* C12: once initialize_nse_session has warmed the session up successfully,
\* no later call of it sends a warm-up GET, whichever run of the script
\* makes the call: the warm-up is not performed a second time.
C12_WarmUpOnce == init_ok => f_pc \notin {"init_root", "init_deriv"}

\* C13: a root-page warm-up answered with an error status ends the fetch:
\* no GET is sent to the historical endpoint in that call, and the call
\* returns None with an error shown.
C13_RootFailureStopsFetch ==
    f_root >= 400 => /\ f_queries = 0
                     /\ f_pc = "done" => df = NoneDf /\ f_messages # {}

\* C14: a derivatives-page warm-up answered with an error status does not
\* end the fetch: the call goes on to the historical GET and sends it.
C14_DerivFailureNonFatal ==
    f_deriv >= 400 => f_pc = "hist" \/ f_queries = 1

\* the four price cells of a raw record, as the source delivers them
RawOHLC(rec) ==
    IF "FH_TIMESTAMP" \in DOMAIN rec
    THEN <<rec.FH_OPENING_PRICE, rec.FH_TRADE_HIGH_PRICE, rec.FH_TRADE_LOW_PRICE,
           rec.FH_CLOSING_PRICE>>
    ELSE <<rec.Open, rec.High, rec.Low, rec.Close>>
\* none of the four is absent, a text that is no number, or '-'
RawComplete(rec) == \A k \in 1..4 : ToNumeric(RawOHLC(rec)[k]) # NaN
Normalized == f_pc = "done" /\ ~df.none /\ f_variant \in {"main01", "core", "app"}

\* C15: every row of a table returned by fetch_nse_data or by
\* load_and_process_data has a numeric Open, High, Low and Close, and the
\* table has no more rows than the raw input has records with four numeric
\* price cells.
C15_RowDrop ==
    Normalized =>
        /\ \A i \in DOMAIN df.rows : HasOHLC(df.rows[i])
        /\ Len(df.rows) <= Cardinality({i \in DOMAIN f_response.data :
                                           RawComplete(f_response.data[i])})

\* the frame fetch_nse_data returned for the answer in f_response
Returned == ParseDates(Normalize(f_response.data))
Ascending(rows) == \A i, j \in DOMAIN rows : i < j => InOrder(rows[i], rows[j])
StrictlyDated(rows) ==
    \A i, j \in DOMAIN rows :
        i < j => rows[i].Date # NaT /\ rows[j].Date # NaT /\ rows[i].Date < rows[j].Date
ApiTable == f_pc = "done" /\ ~df.none /\ f_variant \in {"main01", "core"}

C17_NormalizeTotal ==
    /\ f_pc = "done" /\ f_queries = 1 /\ f_variant \in {"main01", "core"}
    /\ ~GetRaises(f_response) /\ HasData(f_response)
    => ~df.none /\ f_messages = {}

\* C18: no call of fetch_nse_data or fetch_historical_data ends with an
\* exception propagated to its caller, whatever a warm-up GET or the
\* historical GET does: every call ends by returning a value.
C18_NeverRaises == f_pc # "raised"

\* C19: no run of main(), in any of the scripts, calls the historical
\* fetcher with a strike of 0 or less.
C19_NoFetchOfPlaceholder == invoked => strike_price > 0

\* C20: no run of main(), in any of the scripts, calls the historical
\* fetcher with a from_date that is not strictly before the to_date.
C20_FromBeforeTo == invoked => from_date < until_date

IsFutures == instrument_type \in {"FUTIDX", "FUTSTK", "FUTIVX"}

\* C21: for a futures instrument type discovery sends no GET to the
\* historical endpoint, for CE or for PE, and returns the placeholder [0].
C21_FuturesSkipLoop ==
    IsFutures => /\ queries["CE"] = 0 /\ queries["PE"] = 0
                 /\ pc = "done" => result = <<0>>

\* C22: whenever discovery is about to send a GET to the historical
\* endpoint after an earlier one of the same call (a further attempt for the
\* side, or the first attempt for PE after the last for CE), a time.sleep
\* has run since that earlier GET, whether it was handled or raised.
C22_SleepBetweenQueries ==
    pc = "query" /\ queries["CE"] + queries["PE"] > 0 => slept

\* all three CE attempts raised and the first PE attempt is about to be sent
C22_Witness ==
    /\ variant = "retry"
    /\ pc = "query"
    /\ Side = "PE"
    /\ failures["CE"] = 3
    /\ queries["PE"] = 0
    /\ slept

\* C23: in a run of a script in which the fetch is not triggered, no series
\* obtained in an earlier run is displayed
C23_NoStaleSeries == displayed => invoked

\* C23 (amended): in a run in which the fetch is not triggered, a chart is
\* drawn exactly when the script keeps its series in the session state and
\* the series stored by an earlier run has rows; the stored series is kept
C23_StoredSeriesDisplayed ==
    ~invoked =>
        /\ displayed <=> (Persists(program) /\ prev_df.kind = "series")
        /\ session_df = prev_df

C23_Witness ==
    /\ program = "core"
    /\ ~invoked
    /\ displayed
    /\ prev_df.kind = "series"
    /\ prev_df.strike # strike_price

\* C30: when the fetch is triggered and returns None the stored series becomes
\* None and no chart is drawn in that run; in a run where the fetch is not
\* triggered the stored series stays what it was
C30_StoredSeries ==
    /\ invoked /\ returned = NoneSeries => session_df = NoneSeries /\ ~displayed
    /\ ~invoked => session_df = prev_df

C30_Witness ==
    /\ program = "core"
    /\ prev_df.kind = "series"
    /\ invoked
    /\ returned = NoneSeries
    /\ session_df = NoneSeries
    /\ ~displayed

\* C24: the retry variant of fetch_strike_prices makes at most 2 warm-up GETs
\* and at most 3 historical GETs per side, and every call ends with a
\* returned list (from the API, from the snapshot file, or the placeholder
\* [0]), never without one
C24_EndsWithResult ==
    variant = "retry" =>
        /\ warmups <= 2
        /\ \A s \in {"CE", "PE"} : queries[s] <= 3
        /\ pc = "done" => source \in {"api", "csv", "placeholder"} /\ result # <<>>
        /\ pc # "raised"

\* C25: a call of the retry variant made without a to_date goes on like any
\* other call (with expiry_date as the end of the query window) and returns a
\* strike list
C25_ToDateDefaults ==
    variant = "retry" /\ to_date = None /\ pc # "idle" =>
        /\ pc \in {"warm_root", "warm_deriv", "query", "sleep", "api_end", "csv", "done"}
        /\ pc = "done" => result # <<>>

DurationDays(d) ==
    CASE d = "1D" -> 1 [] d = "1W" -> 7 [] d = "1M" -> 30
      [] d = "1.5M" -> 45 [] d = "3M" -> 90

\* C26: in core.py, for every duration other than Custom the from_date of the
\* run is the to_date selected by the user minus the days of the duration
C26_FromDateOfPreset ==
    program = "core" /\ duration # "Custom" =>
        from_date = until_date - DurationDays(duration)

Ran == pnl.message # "not run"

Closes(leg) == [i \in 1..Len(leg.rows) |-> leg.rows[i].FH_CLOSE]

\* C27: calculate_credit_spread_pnl returns ((first sell close - first buy
\* close) - (last sell close - last buy close)) * quantity
C27_PnlOfCloses ==
    Ran =>
        /\ ~pnl.none
        /\ pnl.value =
              ((Closes(sell_df)[1] - Closes(buy_df)[1])
               - (Closes(sell_df)[Len(sell_df.rows)] - Closes(buy_df)[Len(buy_df.rows)]))
              * quantity

\* C27 (amended): with the first of FH_CLOSE, CLOSE, LAST, LTP that both
\* frames carry as the price column, the result is ((first sell price - first
\* buy price) - (last sell price - last buy price)) * quantity over the rows
\* taken by position, whatever the lengths and dates of the legs; when the
\* frames share none of the four columns the result is None with a message
C27_PnlByPosition ==
    Ran =>
        LET shared == {c \in {"FH_CLOSE", "CLOSE", "LAST", "LTP"} :
                          c \in sell_df.columns /\ c \in buy_df.columns}
            col == IF "FH_CLOSE" \in shared THEN "FH_CLOSE"
                   ELSE IF "CLOSE" \in shared THEN "CLOSE"
                   ELSE IF "LAST" \in shared THEN "LAST" ELSE "LTP"
            n == Len(sell_df.rows)
            m == Len(buy_df.rows)
        IN  IF shared = {}
            THEN pnl.none /\ pnl.message = "Missing close price column for P/L calculation"
            ELSE /\ ~pnl.none
                 /\ pnl.value =
                       ((sell_df.rows[1][col] - buy_df.rows[1][col])
                        - (sell_df.rows[n][col] - buy_df.rows[m][col])) * quantity

\* legs of different lengths whose first and last days differ
C27_Witness ==
    /\ Ran
    /\ ~pnl.none
    /\ Len(sell_df.rows) # Len(buy_df.rows)
    /\ sell_df.rows[1].FH_TIMESTAMP # buy_df.rows[1].FH_TIMESTAMP
    /\ sell_df.rows[Len(sell_df.rows)].FH_TIMESTAMP
          # buy_df.rows[Len(buy_df.rows)].FH_TIMESTAMP
    /\ pnl.value # 0

\* C28: in nseOptions.py a call of initialize_nse_session returns True, and
\* the historical query is sent on the session, only when a warm-up of the
\* session has succeeded
C28_QueryOnlyAfterWarmUp ==
    f_variant = "nseOptions" /\ (f_pc = "hist" \/ f_queries > 0) => init_ok

\* C29: in the variant without retries an exception on a warm-up GET or on
\* the CE or PE query ends the call at once with exactly [0], whatever the
\* CE side had contributed before
C29_ExceptionReturnsPlaceholder ==
    variant = "noretry" =>
        /\ failures["CE"] + failures["PE"] > 0 => pc = "done" /\ result = <<0>>
        /\ pc = "done" /\ queries["CE"] = 0 => result = <<0>>

\* the CE query delivered strikes and the PE query raised
C29_Witness ==
    /\ variant = "noretry"
    /\ pc = "done"
    /\ collected["CE"] # {}
    /\ failures["PE"] = 1
    /\ result = <<0>>

====
